---------------------------- MODULE Spec2Model ----------------------------
(***************************************************************************)
(* Layout decision engine of src/tools/enhanced_powerpoint_tools.py:       *)
(* the content classifier (analyze_content_for_optimal_layout), the        *)
(* structure extractors, the bullet extractor and slide assembly           *)
(* (create_slide_with_smart_layout and its helpers), driven by the loop of *)
(* create_enhanced_powerpoint.                                             *)
(*                                                                         *)
(* Text is modelled as TLA+ strings, read character by character.  The     *)
(* bullet character U+2022 of the source is written "@" (strings of the    *)
(* module are ASCII); no input uses "@" for anything else.                 *)
(***************************************************************************)
EXTENDS Integers, Sequences, FiniteSets, TLC

VARIABLES
    pc,               \* position in create_enhanced_powerpoint
    i,                \* number of slides_data entries already processed
    slide_title,      \* slide_info.get("title", "") of the current entry
    content,          \* slide_info.get("content", "") of the current entry
    layout_analysis,  \* the dict returned by analyze_content_for_optimal_layout
    layout,           \* what the renderer offered for the slide being built
    slide,            \* the slide most recently added to the deck
    n_deck,           \* len(prs.slides)
    error,            \* the exception that ended the run, or "none"
    calls,            \* the classifier calls of a caller that keeps several
                      \* decisions: each call's arguments, the rule it has
                      \* reached and its local dict `analysis`
    caller_pc,        \* "calling", "saved" or "loaded"
    plan,             \* the list the caller passed to save_enhanced_plan
    plan_file,        \* the JSON document that json.dump wrote
    loaded_plan       \* the list that json.load returned

deck_vars == <<pc, i, slide_title, content, layout_analysis, layout,
               slide, n_deck, error>>

caller_vars == <<calls, caller_pc, plan, plan_file, loaded_plan>>

vars == <<deck_vars, caller_vars>>

----------------------------------------------------------------------------
(* Bounds of the model.                                                    *)

\* Fragments concatenated into one content string.
MaxFrags == 2
\* Entries of slides_data.
MaxSlides == 2
\* Placeholders a renderer layout exposes.
MaxPlaceholders == 3

----------------------------------------------------------------------------
(* Python string primitives.                                               *)

Bullet == "@"

Char(s, k) == SubSeq(s, k, k)

Digits == {"0", "1", "2", "3", "4", "5", "6", "7", "8", "9"}

IsDigit(c) == c \in Digits

\* str.isspace for the characters of the inputs (also what \s matches).
IsSpace(c) == c \in {" ", "\n", "\t"}

UpperCase == "ABCDEFGHIJKLMNOPQRSTUVWXYZ"

LowerCase == "abcdefghijklmnopqrstuvwxyz"

UpperCaseLetters == {Char(UpperCase, k) : k \in 1..26}

LowerOf ==
    [c \in UpperCaseLetters |->
        Char(LowerCase, CHOOSE k \in 1..26 : Char(UpperCase, k) = c)]

LowerChar(c) == IF c \in UpperCaseLetters THEN LowerOf[c] ELSE c

\* the characters a..b of s in lower case (the range is halved at each step)
RECURSIVE LowerRange(_, _, _)
LowerRange(s, a, b) ==
    IF a > b THEN ""
    ELSE IF a = b THEN LowerChar(Char(s, a))
    ELSE LET m == (a + b) \div 2
         IN  LowerRange(s, a, m) \o LowerRange(s, m + 1, b)

\* str.lower
Lower(s) == LowerRange(s, 1, Len(s))

\* s[k-1:].startswith(w), k a 1-based position
StartsAt(s, k, w) ==
    /\ k >= 1
    /\ k + Len(w) - 1 <= Len(s)
    /\ SubSeq(s, k, k + Len(w) - 1) = w

\* str.startswith
StartsWith(s, w) == StartsAt(s, 1, w)

\* w in s
Contains(s, w) == \E k \in 1..(Len(s) - Len(w) + 1) : StartsAt(s, k, w)

\* s.find(w) as a 1-based position, 0 when absent
Find(s, w) ==
    IF Contains(s, w)
    THEN CHOOSE k \in 1..(Len(s) - Len(w) + 1) :
            /\ StartsAt(s, k, w)
            /\ \A j \in 1..(k - 1) : ~StartsAt(s, j, w)
    ELSE 0

\* s[k-1:]
From(s, k) == SubSeq(s, k, Len(s))

\* str.count of a single character
Count(s, c) == Cardinality({k \in 1..Len(s) : Char(s, k) = c})

\* str.split(sep): the parts between the non-overlapping occurrences of sep,
\* found left to right
RECURSIVE Split(_, _)
Split(s, sep) ==
    LET p == Find(s, sep)
    IN  IF p = 0 THEN <<s>>
        ELSE <<SubSeq(s, 1, p - 1)>> \o Split(From(s, p + Len(sep)), sep)

\* sep.join(parts)
RECURSIVE Join(_, _)
Join(parts, sep) ==
    IF Len(parts) = 0 THEN ""
    ELSE IF Len(parts) = 1 THEN parts[1]
    ELSE parts[1] \o sep \o Join(Tail(parts), sep)

\* first position at or after k that holds no whitespace (Len(s)+1 if none)
RECURSIVE SkipSpace(_, _)
SkipSpace(s, k) ==
    IF k <= Len(s) /\ IsSpace(Char(s, k)) THEN SkipSpace(s, k + 1) ELSE k

\* first position at or after k that holds no digit (Len(s)+1 if none)
RECURSIVE SkipDigits(_, _)
SkipDigits(s, k) ==
    IF k <= Len(s) /\ IsDigit(Char(s, k)) THEN SkipDigits(s, k + 1) ELSE k

\* last position at or before k that holds no whitespace (0 if none)
RECURSIVE SkipSpaceBack(_, _)
SkipSpaceBack(s, k) ==
    IF k >= 1 /\ IsSpace(Char(s, k)) THEN SkipSpaceBack(s, k - 1) ELSE k

\* str.strip
Strip(s) == SubSeq(s, SkipSpace(s, 1), SkipSpaceBack(s, Len(s)))

DigitValue(c) == CHOOSE d \in 0..9 : Char("0123456789", d + 1) = c

\* int(s) for a string of decimal digits
RECURSIVE ToInt(_)
ToInt(s) ==
    IF Len(s) = 0 THEN 0
    ELSE 10 * ToInt(SubSeq(s, 1, Len(s) - 1)) + DigitValue(Char(s, Len(s)))

\* position k starts a run of digits (the leftmost place a \d+ match begins)
RunStart(s, k) ==
    /\ k <= Len(s)
    /\ IsDigit(Char(s, k))
    /\ (k = 1 \/ ~IsDigit(Char(s, k - 1)))

\* the least element of a non-empty set of positions
First(positions) == CHOOSE j \in positions : \A h \in positions : j <= h

\* the first run of digits that starts at or after k (0 if none): where a
\* left-to-right scan for \d+ goes next
NextRunStart(s, k) ==
    LET starts == {j \in k..Len(s) : RunStart(s, j)}
    IN  IF starts = {} THEN 0 ELSE First(starts)

----------------------------------------------------------------------------
(* extract_bullet_points                                                   *)

BulletMarkers == {Bullet, "-", "*", "1.", "2.", "3."}

BulletTriggerWords == {"important", "key", "main", "primary"}

\* the character class of the clean-up pattern ^[@\-*\d\.\s]+
InCleanUpClass(c) == c \in {Bullet, "-", "*", "."} \/ IsDigit(c) \/ IsSpace(c)

RECURSIVE SkipCleanUpClass(_, _)
SkipCleanUpClass(s, k) ==
    IF k <= Len(s) /\ InCleanUpClass(Char(s, k))
    THEN SkipCleanUpClass(s, k + 1)
    ELSE k

\* Mutant: the clean-up removes one leading character of the class only.
CleanPointOneCharacter(line) ==
    IF Len(line) > 0 /\ InCleanUpClass(Char(line, 1)) THEN From(line, 2)
    ELSE line

\* re.sub(r'^[@\-*\d\.\s]+', '', line)
CleanPoint(line) == From(line, SkipCleanUpClass(line, 1))

\* Mutant: every non-empty line is taken as a point.
LineSelectedEveryLine(line) == line # ""

\* Mutant: every "N." is a marker, not only "1.", "2." and "3.".
LineSelectedAnyNumber(line) ==
    /\ line # ""
    /\ \/ \E m \in {Bullet, "-", "*"} : StartsWith(line, m)
       \/ IsDigit(Char(line, 1)) /\ StartsAt(line, SkipDigits(line, 1), ".")
       \/ LET line_lower == Lower(line)
          IN  \E w \in BulletTriggerWords : Contains(line_lower, w)

\* the condition of the if in the loop, on the stripped line
LineSelected(line) ==
    /\ line # ""
    /\ \/ \E m \in BulletMarkers : StartsWith(line, m)
       \/ LET line_lower == Lower(line)
          IN  \E w \in BulletTriggerWords : Contains(line_lower, w)

RECURSIVE PointsOfLines(_)
PointsOfLines(lines) ==
    IF Len(lines) = 0 THEN <<>>
    ELSE LET line == Strip(Head(lines))
             clean_point == CleanPoint(line)
         IN  (IF LineSelected(line) /\ clean_point # ""
              THEN <<clean_point>> ELSE <<>>)
             \o PointsOfLines(Tail(lines))

extract_bullet_points(text) == PointsOfLines(Split(text, "\n"))

----------------------------------------------------------------------------
(* extract_comparison_structure                                            *)

SplitKeywords == <<"vs", "versus", "compared to", "compared with">>

\* the keyword the for loop stops at: the first of the list found in the
\* lowercased content (0 when the loop ends without a break)
FirstSplitKeyword(text) ==
    LET low == Lower(text)
        hits == {k \in 1..Len(SplitKeywords) : Contains(low, SplitKeywords[k])}
    IN  IF hits = {} THEN 0
        ELSE CHOOSE k \in hits : \A j \in hits : k <= j

extract_comparison_structure(text) ==
    LET k == FirstSplitKeyword(text)
    IN  IF k = 0
        THEN [left_side |-> <<>>, right_side |-> <<>>,
              comparison_type |-> "general"]
        ELSE LET parts == Split(Lower(text), SplitKeywords[k])
             IN  [left_side |-> extract_bullet_points(parts[1]),
                  right_side |-> extract_bullet_points(parts[2]),
                  comparison_type |-> "general"]

----------------------------------------------------------------------------
(* extract_chart_data                                                      *)

\* re.findall(r'(\d+)%', s), as integers: scanning from position k
RECURSIVE PercentValuesFrom(_, _)
PercentValuesFrom(s, k) ==
    LET d == NextRunStart(s, k)
    IN  IF d = 0 THEN <<>>
        ELSE LET e == SkipDigits(s, d)
             IN  IF StartsAt(s, e, "%")
                 THEN <<ToInt(SubSeq(s, d, e - 1))>>
                          \o PercentValuesFrom(s, e + 1)
                 ELSE PercentValuesFrom(s, e)

GrowthWords == {"increased", "grew", "growth"}

\* where the digits of (?:increased|grew|growth)\s+(?:by\s+)?(\d+) begin when
\* the pattern matches at position k, else 0
GrowthDigitsAt(s, k) ==
    IF \E w \in GrowthWords : StartsAt(s, k, w)
    THEN LET w == CHOOSE v \in GrowthWords : StartsAt(s, k, v)
             p == k + Len(w)
             q == SkipSpace(s, p)
             r == SkipSpace(s, q + 2)
         IN  IF q = p THEN 0
             ELSE IF StartsAt(s, q, "by") /\ r > q + 2
                     /\ r <= Len(s) /\ IsDigit(Char(s, r))
             THEN r
             ELSE IF q <= Len(s) /\ IsDigit(Char(s, q)) THEN q
             ELSE 0
    ELSE 0

\* re.findall(growth_pattern, s), as integers: scanning from position k
RECURSIVE GrowthValuesFrom(_, _)
GrowthValuesFrom(s, k) ==
    LET matches == {j \in k..Len(s) : GrowthDigitsAt(s, j) # 0}
    IN  IF matches = {} THEN <<>>
        ELSE LET d == GrowthDigitsAt(s, First(matches))
                 e == SkipDigits(s, d)
             IN  <<ToInt(SubSeq(s, d, e - 1))>> \o GrowthValuesFrom(s, e)

\* Mutant: the labels are numbered from 0 and there is one more of them.
LabelsFromZero(label, n) == [k \in 1..(n + 1) |-> label \o " " \o ToString(k - 1)]

\* [f"{label} {i+1}" for i in range(n)]
Labels(label, n) == [k \in 1..n |-> label \o " " \o ToString(k)]

\* Mutant: the growth branch is an elif of the percentage branch.
extract_chart_data_elif(text) ==
    LET percentages == PercentValuesFrom(text, 1)
        growth_matches == GrowthValuesFrom(Lower(text), 1)
        data0 == [chart_type |-> "column", data_points |-> <<>>,
                  categories |-> <<>>, values |-> <<>>]
    IN  IF Len(percentages) > 0
        THEN [data0 EXCEPT !.chart_type = "pie",
                           !.values = percentages,
                           !.categories = Labels("Category", Len(percentages))]
        ELSE IF Len(growth_matches) > 0
        THEN [data0 EXCEPT !.values = growth_matches,
                           !.categories = Labels("Growth", Len(growth_matches))]
        ELSE data0

extract_chart_data(text) ==
    LET percentages == PercentValuesFrom(text, 1)
        growth_matches == GrowthValuesFrom(Lower(text), 1)
        data0 == [chart_type |-> "column", data_points |-> <<>>,
                  categories |-> <<>>, values |-> <<>>]
        data1 == IF Len(percentages) > 0
                 THEN [data0 EXCEPT !.chart_type = "pie",
                                    !.values = percentages,
                                    !.categories =
                                        Labels("Category", Len(percentages))]
                 ELSE data0
    IN  IF Len(growth_matches) > 0
        THEN [data1 EXCEPT !.chart_type = "column",
                           !.values = growth_matches,
                           !.categories = Labels("Growth", Len(growth_matches))]
        ELSE data1

----------------------------------------------------------------------------
(* extract_process_structure                                               *)

\* first position at or after k that holds a newline (Len(s)+1 if none)
LineEnd(s, k) ==
    LET newlines == {j \in k..Len(s) : Char(s, j) = "\n"}
    IN  IF newlines = {} THEN Len(s) + 1 ELSE First(newlines)

\* where group 2 of (\d+)\.\s*(.+) begins when the dot is at position e:
\* \s* takes all the whitespace it can and gives back only as far as .+ needs
\* to find one character that is not a newline; 0 when there is none
StepTextStart(s, e) ==
    LET q == SkipSpace(s, e + 1)
        back == {r \in (e + 1)..Len(s) : Char(s, r) # "\n"}
    IN  IF q <= Len(s) THEN q
        ELSE IF back = {} THEN 0
        ELSE CHOOSE r \in back : \A j \in back : j <= r

\* [step[1].strip() for step in re.findall(step_pattern, s)]: from position k
RECURSIVE StepsFrom(_, _)
StepsFrom(s, k) ==
    LET d == NextRunStart(s, k)
    IN  IF d = 0 THEN <<>>
        ELSE LET e == SkipDigits(s, d)
                 t == IF StartsAt(s, e, ".") THEN StepTextStart(s, e) ELSE 0
             IN  IF t = 0 THEN StepsFrom(s, e)
                 ELSE LET z == LineEnd(s, t)
                      IN  <<Strip(SubSeq(s, t, z - 1))>> \o StepsFrom(s, z)

\* Mutant: total_steps is set on the numbered path only.
extract_process_structure_counts_numbered(text) ==
    LET steps == StepsFrom(text, 1)
        points == extract_bullet_points(text)
    IN  IF Len(steps) > 0
        THEN [process_type |-> "linear", steps |-> steps,
              total_steps |-> Len(steps)]
        ELSE [process_type |-> "linear", steps |-> points,
              total_steps |-> 0]

extract_process_structure(text) ==
    LET steps == StepsFrom(text, 1)
        points == extract_bullet_points(text)
    IN  IF Len(steps) > 0
        THEN [process_type |-> "linear", steps |-> steps,
              total_steps |-> Len(steps)]
        ELSE [process_type |-> "linear", steps |-> points,
              total_steps |-> Len(points)]

----------------------------------------------------------------------------
(* analyze_content_for_optimal_layout                                      *)

\* a dict with no keys
EmptyDict == [k \in {} |-> ""]

Append1(seq, e) == seq \o <<e>>

DefaultAnalysis ==
    [layout_type |-> "content",
     slide_layout_index |-> 1,
     visual_elements |-> <<>>,
     reasoning |-> "",
     enhancements |-> <<>>,
     content_structure |-> EmptyDict]

ComparisonKeywords ==
    {"vs", "versus", "compared to", "compared with", "difference between"}

\* Mutant: rule 1 looks for the extractor's four keywords, in the content.
Rule1MatchesSplitKeywordInContent(text, title) ==
    LET content_lower == Lower(text)
    IN  \E k \in DOMAIN SplitKeywords : Contains(content_lower, SplitKeywords[k])

Rule1Matches(text, title) ==
    LET content_lower == Lower(text)
        title_lower == Lower(title)
    IN  \E kw \in ComparisonKeywords :
            Contains(content_lower, kw) \/ Contains(title_lower, kw)

\* len(re.findall(r'\d+%', s))
CountPercentSign(s) ==
    Cardinality({k \in 2..Len(s) : Char(s, k) = "%" /\ IsDigit(Char(s, k - 1))})

\* len(re.findall(r'\d+\s*(w1|w2|...)', s)): the runs of digits followed, after
\* any whitespace, by one of the words
CountNumberThenWord(s, words) ==
    Cardinality({k \in 1..Len(s) :
        /\ RunStart(s, k)
        /\ \E w \in words : StartsAt(s, SkipSpace(s, SkipDigits(s, k)), w)})

\* len(re.findall(phrase + r'\d+', s)), phrase a literal
CountPhraseThenNumber(s, phrase) ==
    Cardinality({k \in 1..Len(s) :
        /\ StartsAt(s, k, phrase)
        /\ k + Len(phrase) <= Len(s)
        /\ IsDigit(Char(s, k + Len(phrase)))})

\* Mutant: a token that two patterns match is counted once: the matches of
\* r'\d+%' are among those of r'\d+\s*(percent|%)' and add nothing.
NumbersFoundWithoutDuplicates(content_lower) ==
      CountNumberThenWord(content_lower, {"percent", "%"})
    + CountPhraseThenNumber(content_lower, "increased by ")
    + CountPhraseThenNumber(content_lower, "decreased by ")
    + CountPhraseThenNumber(content_lower, "growth of ")
    + CountNumberThenWord(content_lower, {"million", "billion", "thousand"})

\* len(numbers_found): the matches of the six number_patterns, summed
NumbersFound(content_lower) ==
      CountPercentSign(content_lower)
    + CountNumberThenWord(content_lower, {"percent", "%"})
    + CountPhraseThenNumber(content_lower, "increased by ")
    + CountPhraseThenNumber(content_lower, "decreased by ")
    + CountPhraseThenNumber(content_lower, "growth of ")
    + CountNumberThenWord(content_lower, {"million", "billion", "thousand"})

ChartThreshold == 2

Rule2Matches(text, title) == NumbersFound(Lower(text)) >= ChartThreshold

ProcessKeywords ==
    {"step", "process", "flow", "first", "then", "next", "finally", "stage",
     "phase"}

\* re.search over step_patterns: \d+\. , step \d+ , phase \d+
StepPatternFound(s) ==
    \/ \E k \in 1..(Len(s) - 1) : IsDigit(Char(s, k)) /\ Char(s, k + 1) = "."
    \/ CountPhraseThenNumber(s, "step ") > 0
    \/ CountPhraseThenNumber(s, "phase ") > 0

Rule3Matches(text, title) ==
    LET content_lower == Lower(text)
    IN  \/ \E kw \in ProcessKeywords : Contains(content_lower, kw)
        \/ StepPatternFound(content_lower)

SectionKeywords ==
    {"overview", "introduction", "summary", "conclusion", "key points",
     "main points"}

Rule4Matches(text, title) ==
    LET title_lower == Lower(title)
    IN  \E kw \in SectionKeywords : Contains(title_lower, kw)

MinNewlines == 4

MinLines == 6

MinColumnLen == 20

\* lines[:mid_point] and lines[mid_point:] joined, mid_point = len(lines) // 2
LeftContent(text) ==
    LET lines == Split(text, "\n")
    IN  Join(SubSeq(lines, 1, Len(lines) \div 2), "\n")

RightContent(text) ==
    LET lines == Split(text, "\n")
    IN  Join(SubSeq(lines, (Len(lines) \div 2) + 1, Len(lines)), "\n")

\* the outer if of rule 5
Rule5Candidate(text) ==
    /\ Count(text, "\n") >= MinNewlines
    /\ Len(Split(text, "\n")) >= MinLines

\* Mutant: only the left half has to be longer than 20 characters.
Rule5MatchesLeftOnly(text, title) ==
    /\ Rule5Candidate(text)
    /\ Len(LeftContent(text)) > MinColumnLen

Rule5Matches(text, title) ==
    /\ Rule5Candidate(text)
    /\ Len(LeftContent(text)) > MinColumnLen
    /\ Len(RightContent(text)) > MinColumnLen

TitleOnlyMaxLen == 50

Rule6Matches(text, title) ==
    /\ Len(Strip(text)) < TitleOnlyMaxLen
    /\ LET content_lower == Lower(text)
       IN  \E w \in {"key", "main", "important", "critical"} :
               Contains(content_lower, w)

VisualWords ==
    {"diagram", "graph", "chart", "image", "picture", "visual", "illustration"}

\* Mutant: the visual words are looked for in the title.
Rule7MatchesInTitle(text, title) ==
    LET title_lower == Lower(title)
    IN  \E w \in VisualWords : Contains(title_lower, w)

Rule7Matches(text, title) ==
    LET content_lower == Lower(text)
    IN  \E w \in VisualWords : Contains(content_lower, w)

BlankMaxLen == 20

Rule8Matches(text, title) ==
    /\ Len(Strip(text)) < BlankMaxLen
    /\ LET title_lower == Lower(title)
       IN  \E w \in {"diagram", "flowchart", "timeline", "mind map"} :
               Contains(title_lower, w)

\* The eight if statements, each on the dict the ones before it left.
Rule1(analysis, text, title) ==
    IF Rule1Matches(text, title)
    THEN [analysis EXCEPT
            !.layout_type = "comparison",
            !.slide_layout_index = 4,
            !.reasoning =
                "Contains comparison keywords - using side-by-side layout",
            !.enhancements = Append1(@, "side_by_side_layout"),
            !.content_structure = extract_comparison_structure(text)]
    ELSE analysis

Rule2(analysis, text, title) ==
    IF Rule2Matches(text, title)
    THEN [analysis EXCEPT
            !.layout_type = "chart",
            !.slide_layout_index = 1,
            !.reasoning = "Found " \o ToString(NumbersFound(Lower(text)))
                \o " numerical data points - adding chart visualization",
            !.enhancements = Append1(@, "data_visualization"),
            !.visual_elements = Append1(@, "chart"),
            !.content_structure = extract_chart_data(text)]
    ELSE analysis

Rule3(analysis, text, title) ==
    IF Rule3Matches(text, title)
    THEN [analysis EXCEPT
            !.layout_type = "process",
            !.slide_layout_index = 1,
            !.reasoning = "Contains process or step-by-step content - "
                \o "using SmartArt process flow",
            !.enhancements = Append1(@, "smartart_flow"),
            !.visual_elements = Append1(@, "smartart"),
            !.content_structure = extract_process_structure(text)]
    ELSE analysis

\* Mutant: rule 4 sets layout_type and leaves the index and the reasoning.
Rule4SetsLayoutTypeOnly(analysis, text, title) ==
    IF Rule4Matches(text, title)
    THEN [analysis EXCEPT
            !.layout_type = "section",
            !.enhancements = Append1(@, "section_header")]
    ELSE analysis

Rule4(analysis, text, title) ==
    IF Rule4Matches(text, title)
    THEN [analysis EXCEPT
            !.layout_type = "section",
            !.slide_layout_index = 2,
            !.reasoning = "Section header detected - using section layout",
            !.enhancements = Append1(@, "section_header")]
    ELSE analysis

Rule5(analysis, text, title) ==
    IF Rule5Matches(text, title)
    THEN [analysis EXCEPT
            !.layout_type = "two_column",
            !.slide_layout_index = 3,
            !.reasoning = "Content can be split into two balanced columns",
            !.enhancements = Append1(@, "two_column_layout"),
            !.content_structure =
                [left_column |-> LeftContent(text),
                 right_column |-> RightContent(text)]]
    ELSE analysis

Rule6(analysis, text, title) ==
    IF Rule6Matches(text, title)
    THEN [analysis EXCEPT
            !.layout_type = "title_only",
            !.slide_layout_index = 5,
            !.reasoning = "Short, impactful content - "
                \o "using title-only layout for emphasis",
            !.enhancements = Append1(@, "title_only_emphasis")]
    ELSE analysis

\* Mutant: visual_elements is assigned, not appended to.
Rule7AssignsVisualElements(analysis, text, title) ==
    IF Rule7Matches(text, title)
    THEN [analysis EXCEPT
            !.layout_type = "content_with_caption",
            !.slide_layout_index = 7,
            !.reasoning =
                "Content mentions visual elements - using caption layout",
            !.enhancements = Append1(@, "caption_layout"),
            !.visual_elements = <<"image_placeholder">>]
    ELSE analysis

\* Mutant: the caption layout is counted from 1 (index 8).
Rule7IndexFromOne(analysis, text, title) ==
    IF Rule7Matches(text, title)
    THEN [analysis EXCEPT
            !.layout_type = "content_with_caption",
            !.slide_layout_index = 8,
            !.reasoning =
                "Content mentions visual elements - using caption layout",
            !.enhancements = Append1(@, "caption_layout"),
            !.visual_elements = Append1(@, "image_placeholder")]
    ELSE analysis

Rule7(analysis, text, title) ==
    IF Rule7Matches(text, title)
    THEN [analysis EXCEPT
            !.layout_type = "content_with_caption",
            !.slide_layout_index = 7,
            !.reasoning =
                "Content mentions visual elements - using caption layout",
            !.enhancements = Append1(@, "caption_layout"),
            !.visual_elements = Append1(@, "image_placeholder")]
    ELSE analysis

Rule8(analysis, text, title) ==
    IF Rule8Matches(text, title)
    THEN [analysis EXCEPT
            !.layout_type = "blank",
            !.slide_layout_index = 6,
            !.reasoning = "Minimal content with diagram title - "
                \o "using blank layout for custom graphics",
            !.enhancements = Append1(@, "blank_custom_graphics")]
    ELSE analysis

\* Mutant: the rules form an if/elif chain, so the first match wins.
analyze_first_match_wins(text, title) ==
    IF Rule1Matches(text, title) THEN Rule1(DefaultAnalysis, text, title)
    ELSE IF Rule2Matches(text, title) THEN Rule2(DefaultAnalysis, text, title)
    ELSE IF Rule3Matches(text, title) THEN Rule3(DefaultAnalysis, text, title)
    ELSE IF Rule4Matches(text, title) THEN Rule4(DefaultAnalysis, text, title)
    ELSE IF Rule5Matches(text, title) THEN Rule5(DefaultAnalysis, text, title)
    ELSE IF Rule6Matches(text, title) THEN Rule6(DefaultAnalysis, text, title)
    ELSE IF Rule7Matches(text, title) THEN Rule7(DefaultAnalysis, text, title)
    ELSE Rule8(DefaultAnalysis, text, title)

analyze_content_for_optimal_layout(text, title) ==
    LET a1 == Rule1(DefaultAnalysis, text, title)
        a2 == Rule2(a1, text, title)
        a3 == Rule3(a2, text, title)
        a4 == Rule4(a3, text, title)
        a5 == Rule5(a4, text, title)
        a6 == Rule6(a5, text, title)
        a7 == Rule7(a6, text, title)
    IN  Rule8(a7, text, title)

----------------------------------------------------------------------------
(* Slide assembly.  A slide is the record of what the renderer was asked   *)
(* to do to it: the layout it was added with, the title text, what was     *)
(* written to placeholders[1] and placeholders[2], and the graphic shapes  *)
(* added.  The placeholders of a layout are taken to be indexed 0..n-1.    *)

\* a placeholder no call has written to
Untouched == [call |-> "none", paragraphs |-> <<>>]

\* dict.get(key, default)
DictGet(d, key, default) == IF key \in DOMAIN d THEN d[key] ELSE default

\* text_frame.clear() leaves one empty paragraph; each point then becomes a
\* paragraph, the first one reusing it
add_bullet_points_to_placeholder(points) ==
    [call |-> "add_bullet_points_to_placeholder",
     paragraphs |-> IF Len(points) = 0 THEN <<"">> ELSE points]

add_text_to_placeholder(text) ==
    LET lines == Split(text, "\n")
    IN  [call |-> "add_text_to_placeholder",
         paragraphs |-> [k \in 1..Len(lines) |-> Strip(lines[k])]]

CaptionMaxLen == 200

\* text_frame.text = content[:200] + "..." if len(content) > 200 else content
set_caption_text(text) ==
    [call |-> "text_frame.text",
     paragraphs |-> <<IF Len(text) > CaptionMaxLen
                      THEN SubSeq(text, 1, CaptionMaxLen) \o "..."
                      ELSE text>>]

\* Mutant: a side without points is skipped, its placeholder left alone.
create_comparison_content_skips_empty(s, content_structure) ==
    LET left_points == DictGet(content_structure, "left_side", <<>>)
        right_points == DictGet(content_structure, "right_side", <<>>)
    IN  IF s.n_placeholders >= 3
        THEN [s EXCEPT
                !.ph1 = IF Len(left_points) = 0 THEN @
                        ELSE add_bullet_points_to_placeholder(left_points),
                !.ph2 = IF Len(right_points) = 0 THEN @
                        ELSE add_bullet_points_to_placeholder(right_points)]
        ELSE s

create_comparison_content(s, content_structure) ==
    IF s.n_placeholders >= 3
    THEN [s EXCEPT
            !.ph1 = add_bullet_points_to_placeholder(
                        DictGet(content_structure, "left_side", <<>>)),
            !.ph2 = add_bullet_points_to_placeholder(
                        DictGet(content_structure, "right_side", <<>>))]
    ELSE s

\* the chart is added only when content_structure["data_points"] is non-empty
\* and the renderer's add_chart call succeeds (any exception is swallowed)
create_chart_content(s, text, content_structure, graphics_ok) ==
    LET chart_data == DictGet(content_structure, "data_points", <<>>)
        categories == DictGet(content_structure, "categories", <<>>)
        values == DictGet(content_structure, "values", <<>>)
        s1 == IF Len(chart_data) > 0 /\ graphics_ok
              THEN [s EXCEPT !.chart =
                      IF Len(categories) > 0 /\ Len(values) > 0
                      THEN [added |-> TRUE, categories |-> categories,
                            values |-> values]
                      ELSE [added |-> TRUE, categories |-> <<>>,
                            values |-> <<>>]]
              ELSE s
    IN  IF s.n_placeholders >= 2
        THEN [s1 EXCEPT !.ph1 =
                add_bullet_points_to_placeholder(extract_bullet_points(text))]
        ELSE s1

SmartArtMaxSteps == 5

\* the bullet fallback runs only in the except branch, that is when there are
\* steps and the renderer's add_smartart call fails
create_process_content(s, text, content_structure, graphics_ok) ==
    LET steps == DictGet(content_structure, "steps", <<>>)
    IN  IF Len(steps) = 0 THEN s
        ELSE IF graphics_ok
        THEN [s EXCEPT !.smartart =
                SubSeq(steps, 1, IF Len(steps) < SmartArtMaxSteps
                                 THEN Len(steps) ELSE SmartArtMaxSteps)]
        ELSE IF s.n_placeholders >= 2
        THEN [s EXCEPT !.ph1 = add_bullet_points_to_placeholder(steps)]
        ELSE s

create_two_column_content(s, content_structure) ==
    IF s.n_placeholders >= 3
    THEN [s EXCEPT
            !.ph1 = add_text_to_placeholder(
                        DictGet(content_structure, "left_column", "")),
            !.ph2 = add_text_to_placeholder(
                        DictGet(content_structure, "right_column", ""))]
    ELSE s

create_caption_content(s, text) ==
    IF s.n_placeholders >= 2
    THEN [s EXCEPT !.ph1 = set_caption_text(text)]
    ELSE s

create_standard_content(s, text) ==
    LET points == extract_bullet_points(text)
    IN  IF s.n_placeholders >= 2
        THEN [s EXCEPT !.ph1 =
                IF Len(points) > 0
                THEN add_bullet_points_to_placeholder(points)
                ELSE add_text_to_placeholder(text)]
        ELSE s

\* prs.slides.add_slide(layout): a slide with nothing written yet
BlankSlide(index, n_placeholders, has_title) ==
    [layout_index |-> index,
     n_placeholders |-> n_placeholders,
     has_title |-> has_title,
     title_set |-> FALSE,
     title |-> "",
     ph1 |-> Untouched,
     ph2 |-> Untouched,
     chart |-> [added |-> FALSE, categories |-> <<>>, values |-> <<>>],
     smartart |-> <<>>]

\* the value of slide while no slide has been returned
NoSlide == BlankSlide(0, 0, FALSE)

NewSlide(index, lay) == BlankSlide(index, lay.n_placeholders, lay.has_title)

\* slide.shapes.title.text = title
SetTitle(s, title) == [s EXCEPT !.title_set = TRUE, !.title = title]

\* the if/elif chain on layout_type
DispatchContent(s, text, analysis, graphics_ok) ==
    LET layout_type == analysis.layout_type
        content_structure == analysis.content_structure
    IN  CASE layout_type = "comparison" ->
                create_comparison_content(s, content_structure)
          [] layout_type = "chart" ->
                create_chart_content(s, text, content_structure, graphics_ok)
          [] layout_type = "process" ->
                create_process_content(s, text, content_structure, graphics_ok)
          [] layout_type = "two_column" ->
                create_two_column_content(s, content_structure)
          [] layout_type = "title_only" -> s
          [] layout_type = "content_with_caption" ->
                create_caption_content(s, text)
          [] layout_type = "blank" -> s
          [] OTHER -> create_standard_content(s, text)

\* create_slide_with_smart_layout, given what the renderer offers: whether
\* prs.slide_layouts has the chosen index and whether it has index 1, and for
\* the layout the slide is added with, its placeholder count, whether it has
\* a title placeholder, and whether add_chart/add_smartart work.
\* Returns [slide, added, error]: prs.slide_layouts[k] raises IndexError for
\* an index it does not have (caught once, for the chosen index);
\* slide.shapes.title is None on a slide without a title placeholder, and
\* setting .text on it raises AttributeError, which nothing catches.
create_slide_with_smart_layout(title, text, analysis, lay) ==
    LET index == analysis.slide_layout_index
    IN  IF lay.index_offered
        THEN LET s == NewSlide(index, lay)
             IN  IF ~lay.has_title
                 THEN [slide |-> s, added |-> TRUE, error |-> "AttributeError"]
                 ELSE [slide |-> DispatchContent(SetTitle(s, title), text,
                                                 analysis, lay.graphics_ok),
                       added |-> TRUE, error |-> "none"]
        ELSE IF lay.fallback_offered
        THEN LET s == NewSlide(1, lay)
             IN  IF ~lay.has_title
                 THEN [slide |-> s, added |-> TRUE, error |-> "AttributeError"]
                 ELSE [slide |-> create_standard_content(SetTitle(s, title),
                                                         text),
                       added |-> TRUE, error |-> "none"]
        ELSE [slide |-> NoSlide, added |-> FALSE, error |-> "IndexError"]

----------------------------------------------------------------------------
(* Inputs: the slides_data entries the caller may pass.                    *)

Titles == {"", "Overview", "Project Timeline", "Cats vs Dogs"}

ContentFragments ==
    {"vs\n- b\n",
     "25% ",
     "increased by 10 ",
     "first we plan ",
     "1. Plan\n",
     "- alpha line one\n- beta line two\n- gamma\n",
     "key ",
     "see chart "}

ContentExamples ==
    {"diagram of our 3-step process: 1. Plan 2. Build 3. Ship",
     "Cats vs Dogs: loyal, clean vs loyal, playful",
     "Revenue grew by 10, representing 25%",
     "- cheap\nvs\n- fast\nvs\n- key point",
     "4. Ship\n- a\n- a",
     "difference between a and b",
     "3 million 5 million"}

RECURSIVE Concatenations(_)
Concatenations(n) ==
    IF n = 0 THEN {""}
    ELSE LET shorter == Concatenations(n - 1)
         IN  shorter \cup {c \o f : c \in shorter, f \in ContentFragments}

Contents == ContentExamples \cup Concatenations(MaxFrags)

NoLayout ==
    [index_offered |-> FALSE, fallback_offered |-> FALSE, n_placeholders |-> 0,
     has_title |-> FALSE, graphics_ok |-> FALSE]

\* What a renderer may offer for a slide of the given layout index.
\* prs.slide_layouts is a list: it has index 1 whenever it has a higher one.
\* The fields that are never read (the layout's placeholders when no slide
\* is added, graphics_ok on the fallback path) are kept at their NoLayout
\* value.
RendererLayouts(index) ==
    {lay \in [index_offered : BOOLEAN,
              fallback_offered : BOOLEAN,
              n_placeholders : 0..MaxPlaceholders,
              has_title : BOOLEAN,
              graphics_ok : BOOLEAN] :
        /\ lay.has_title => lay.n_placeholders >= 1
        /\ lay.index_offered => lay.fallback_offered
        /\ index = 1 => (lay.index_offered <=> lay.fallback_offered)
        /\ ~lay.index_offered => ~lay.graphics_ok
        /\ ~lay.fallback_offered => lay = NoLayout}

----------------------------------------------------------------------------
(* save_enhanced_plan, save_presentation_plan and load_presentation_plan:  *)
(* json.dump and json.load.  The document is kept as its tree of JSON      *)
(* values; a string is held as the escaped text between its quotes and a   *)
(* number as its decimal digits.                                           *)

\* what json.dump writes for one character of a string
JsonEscapeChar(c) ==
    IF c = "\n" THEN "\\n"
    ELSE IF c = "\"" THEN "\\\""
    ELSE IF c = "\\" THEN "\\\\"
    ELSE c

RECURSIVE JsonEscapeRange(_, _, _)
JsonEscapeRange(s, a, b) ==
    IF a > b THEN ""
    ELSE IF a = b THEN JsonEscapeChar(Char(s, a))
    ELSE LET m == (a + b) \div 2
         IN  JsonEscapeRange(s, a, m) \o JsonEscapeRange(s, m + 1, b)

JsonEscape(s) == JsonEscapeRange(s, 1, Len(s))

\* the number of backslashes that end just before position p
RECURSIVE BackslashesBefore(_, _)
BackslashesBefore(t, p) ==
    IF p > 1 /\ Char(t, p - 1) = "\\"
    THEN 1 + BackslashesBefore(t, p - 1)
    ELSE 0

\* position p holds the character an escape names
IsEscaped(t, p) == BackslashesBefore(t, p) % 2 = 1

\* what json.load reads at position p of an escaped text: nothing for the
\* backslash that opens an escape, the named character after it
JsonUnescapeAt(t, p) ==
    LET c == Char(t, p)
    IN  IF IsEscaped(t, p) THEN (IF c = "n" THEN "\n" ELSE c)
        ELSE IF c = "\\" THEN ""
        ELSE c

RECURSIVE JsonUnescapeRange(_, _, _)
JsonUnescapeRange(t, a, b) ==
    IF a > b THEN ""
    ELSE IF a = b THEN JsonUnescapeAt(t, a)
    ELSE LET m == (a + b) \div 2
         IN  JsonUnescapeRange(t, a, m) \o JsonUnescapeRange(t, m + 1, b)

\* Mutant: the loader keeps the escaped text as it stands in the file.
JsonUnescapeKeepsEscapes(t) == t

JsonUnescape(t) == JsonUnescapeRange(t, 1, Len(t))

\* The Python type of the value each key of a decision holds.
StringKeys ==
    {"layout_type", "reasoning", "chart_type", "comparison_type",
     "process_type", "left_column", "right_column"}

NumberKeys == {"slide_layout_index", "total_steps"}

StringListKeys ==
    {"visual_elements", "enhancements", "left_side", "right_side",
     "categories", "steps"}

NumberListKeys == {"values", "data_points"}

JsonString(s) == [json |-> "string", text |-> JsonEscape(s)]

JsonNumber(n) == [json |-> "number", digits |-> ToString(n)]

JsonArray(items) == [json |-> "array", items |-> items]

\* json.dump of the value a decision holds under `key`; a dict becomes an
\* object with the same keys
RECURSIVE JsonDumpValue(_, _)
JsonDumpValue(key, v) ==
    IF key \in StringKeys THEN JsonString(v)
    ELSE IF key \in NumberKeys THEN JsonNumber(v)
    ELSE IF key \in StringListKeys
    THEN JsonArray([k \in 1..Len(v) |-> JsonString(v[k])])
    ELSE IF key \in NumberListKeys
    THEN JsonArray([k \in 1..Len(v) |-> JsonNumber(v[k])])
    ELSE [json |-> "object",
          members |-> [name \in {JsonEscape(k) : k \in DOMAIN v} |->
                          LET k == CHOOSE k \in DOMAIN v : JsonEscape(k) = name
                          IN  JsonDumpValue(k, v[k])]]

\* json.dump(slides_data, f, indent=2) for a list of decisions
JsonDump(decisions) ==
    JsonArray([k \in 1..Len(decisions) |->
                  JsonDumpValue("decision", decisions[k])])

\* json.load of one JSON value
RECURSIVE JsonLoadValue(_)
JsonLoadValue(j) ==
    IF j.json = "string" THEN JsonUnescape(j.text)
    ELSE IF j.json = "number" THEN ToInt(j.digits)
    ELSE IF j.json = "array"
    THEN [k \in 1..Len(j.items) |-> JsonLoadValue(j.items[k])]
    ELSE [key \in {JsonUnescape(name) : name \in DOMAIN j.members} |->
             LET name == CHOOSE name \in DOMAIN j.members :
                             JsonUnescape(name) = key
             IN  JsonLoadValue(j.members[name])]

JsonLoad(document) == JsonLoadValue(document)

\* no file has been written
NoFile == [json |-> "none"]

----------------------------------------------------------------------------
(* A caller that classifies several slides and keeps the decisions.  Each  *)
(* call of analyze_content_for_optimal_layout has its own frame: its       *)
(* arguments, the rule it has reached and the dict `analysis` it builds.   *)

Calls == {1, 2}

LastRule == 8

\* pos = 0: not called; 1..LastRule: the next rule to evaluate;
\* LastRule + 1: returned
NotCalled ==
    [title |-> "", content |-> "", pos |-> 0, analysis |-> DefaultAnalysis]

CallTitles == {"", "Overview"}

CallContents ==
    ContentExamples
    \cup {"",
          "- alpha line one\n- beta line two\n- gamma\n"
              \o "- alpha line one\n- beta line two\n- gamma\n"}

\* the k-th `if` of the classifier, applied to the dict built so far
ApplyRule(k, analysis, text, title) ==
    CASE k = 1 -> Rule1(analysis, text, title)
      [] k = 2 -> Rule2(analysis, text, title)
      [] k = 3 -> Rule3(analysis, text, title)
      [] k = 4 -> Rule4(analysis, text, title)
      [] k = 5 -> Rule5(analysis, text, title)
      [] k = 6 -> Rule6(analysis, text, title)
      [] k = 7 -> Rule7(analysis, text, title)
      [] k = 8 -> Rule8(analysis, text, title)

----------------------------------------------------------------------------
(* create_enhanced_powerpoint.  The deck is kept as its length and the     *)
(* slide added last; the entries of slides_data are drawn as the loop      *)
(* reaches them.                                                           *)

Init ==
    /\ pc = "loop"
    /\ i = 0
    /\ slide_title = ""
    /\ content = ""
    /\ layout_analysis = DefaultAnalysis
    /\ layout = NoLayout
    /\ slide = NoSlide
    /\ n_deck = 1
    /\ error = "none"
    /\ calls = [c \in Calls |-> NotCalled]
    /\ caller_pc = "calling"
    /\ plan = <<>>
    /\ plan_file = NoFile
    /\ loaded_plan = <<>>

\* lines 257-259: the next entry of slides_data is read
ReadEntry ==
    /\ pc = "loop"
    /\ i < MaxSlides
    /\ \E title \in Titles, text \in Contents :
        /\ slide_title' = title
        /\ content' = text
    /\ pc' = "read"
    /\ UNCHANGED <<i, layout_analysis, layout, slide, n_deck, error>>
    /\ UNCHANGED caller_vars

\* lines 261-262: the entry is classified
AnalyzeSlide ==
    /\ pc = "read"
    /\ layout_analysis' =
           analyze_content_for_optimal_layout(content, slide_title)
    /\ pc' = "analyzed"
    /\ UNCHANGED <<i, slide_title, content, layout, slide, n_deck, error>>
    /\ UNCHANGED caller_vars

\* line 265: the slide is built; an exception ends the run
CreateSlide ==
    /\ pc = "analyzed"
    /\ \E lay \in RendererLayouts(layout_analysis.slide_layout_index) :
        LET r == create_slide_with_smart_layout(slide_title, content,
                                                layout_analysis, lay)
        IN  /\ layout' = lay
            /\ slide' = r.slide
            /\ n_deck' = IF r.added THEN n_deck + 1 ELSE n_deck
            /\ error' = r.error
            /\ pc' = IF r.error = "none" THEN "built" ELSE "failed"
    /\ i' = i + 1
    /\ UNCHANGED <<slide_title, content, layout_analysis>>
    /\ UNCHANGED caller_vars

\* line 257: the loop moves on; the names bound in the iteration are rebound
\* before they are read again
NextEntry ==
    /\ pc = "built"
    /\ pc' = "loop"
    /\ slide_title' = ""
    /\ content' = ""
    /\ layout_analysis' = DefaultAnalysis
    /\ layout' = NoLayout
    /\ slide' = NoSlide
    /\ UNCHANGED <<i, n_deck, error>>
    /\ UNCHANGED caller_vars

\* lines 267-271: the loop is over and the deck is saved
SavePresentation ==
    /\ pc = "loop"
    /\ pc' = "saved"
    /\ UNCHANGED <<i, slide_title, content, layout_analysis, layout, slide,
                   n_deck, error>>
    /\ UNCHANGED caller_vars

Next ==
    ReadEntry \/ AnalyzeSlide \/ CreateSlide \/ NextEntry \/ SavePresentation

Spec == Init /\ [][Next]_vars

----------------------------------------------------------------------------
(* The caller's side: calls of the classifier whose steps interleave, and  *)
(* the plan of their decisions saved and loaded back.                      *)

\* lines 12-34: a call starts with its arguments and a new default dict
StartCall(c) ==
    /\ caller_pc = "calling"
    /\ calls[c].pos = 0
    /\ \E title \in CallTitles, text \in CallContents :
        calls' = [calls EXCEPT ![c] =
                     [title |-> title, content |-> text, pos |-> 1,
                      analysis |-> DefaultAnalysis]]
    /\ UNCHANGED <<caller_pc, plan, plan_file, loaded_plan>>
    /\ UNCHANGED deck_vars

\* Mutant: visual_elements is one list that every call appends to.
RuleStepSharedList(c) ==
    /\ caller_pc = "calling"
    /\ calls[c].pos \in 1..LastRule
    /\ LET a == ApplyRule(calls[c].pos, calls[c].analysis,
                          calls[c].content, calls[c].title)
       IN  calls' = [d \in Calls |->
                        IF d = c
                        THEN [calls[c] EXCEPT !.analysis = a, !.pos = @ + 1]
                        ELSE [calls[d] EXCEPT !.analysis.visual_elements =
                                                  a.visual_elements]]
    /\ UNCHANGED <<caller_pc, plan, plan_file, loaded_plan>>
    /\ UNCHANGED deck_vars

\* lines 36-129: the call evaluates its next rule on its own dict; after the
\* last rule it returns the dict
RuleStep(c) ==
    /\ caller_pc = "calling"
    /\ calls[c].pos \in 1..LastRule
    /\ calls' = [calls EXCEPT
                    ![c].analysis = ApplyRule(calls[c].pos, @,
                                              calls[c].content, calls[c].title),
                    ![c].pos = @ + 1]
    /\ UNCHANGED <<caller_pc, plan, plan_file, loaded_plan>>
    /\ UNCHANGED deck_vars

\* the orders in which the caller may list the decisions
PlanOrders == {<<1, 2>>, <<2, 1>>}

\* save_enhanced_plan(slides_data, filename)
SavePlan ==
    /\ caller_pc = "calling"
    /\ \A c \in Calls : calls[c].pos = LastRule + 1
    /\ \E order \in PlanOrders :
        LET decisions == [k \in 1..Len(order) |-> calls[order[k]].analysis]
        IN  /\ plan' = decisions
            /\ plan_file' = JsonDump(decisions)
    /\ caller_pc' = "saved"
    /\ UNCHANGED <<calls, loaded_plan>>
    /\ UNCHANGED deck_vars

\* load_presentation_plan(filename), of the file that was saved
LoadPlan ==
    /\ caller_pc = "saved"
    /\ loaded_plan' = JsonLoad(plan_file)
    /\ caller_pc' = "loaded"
    /\ UNCHANGED <<calls, plan, plan_file>>
    /\ UNCHANGED deck_vars

CallerNext ==
    \/ \E c \in Calls : StartCall(c)
    \/ \E c \in Calls : RuleStep(c)
    \/ SavePlan
    \/ LoadPlan

CallerSpec == Init /\ [][CallerNext]_vars

----------------------------------------------------------------------------
(* Properties of the classifier.  They are read in the states where the    *)
(* decision of the current entry has just been returned.                   *)

Analyzed == pc = "analyzed"

LayoutTypes ==
    {"content", "comparison", "chart", "process", "section", "two_column",
     "title_only", "content_with_caption", "blank"}

\* the trigger of rule k for the current entry
RuleMatches(k) ==
    CASE k = 1 -> Rule1Matches(content, slide_title)
      [] k = 2 -> Rule2Matches(content, slide_title)
      [] k = 3 -> Rule3Matches(content, slide_title)
      [] k = 4 -> Rule4Matches(content, slide_title)
      [] k = 5 -> Rule5Matches(content, slide_title)
      [] k = 6 -> Rule6Matches(content, slide_title)
      [] k = 7 -> Rule7Matches(content, slide_title)
      [] k = 8 -> Rule8Matches(content, slide_title)

\* what rule k writes; entry 0 is the default
RuleLayoutType(k) ==
    IF k = 0 THEN "content"
    ELSE <<"comparison", "chart", "process", "section", "two_column",
           "title_only", "content_with_caption", "blank">>[k]

RuleLayoutIndex(k) == IF k = 0 THEN 1 ELSE <<4, 1, 1, 2, 3, 5, 7, 6>>[k]

\* the highest-numbered rule whose trigger holds, 0 when none does
HighestMatchingRule ==
    LET matching == {k \in 1..8 : RuleMatches(k)}
    IN  IF matching = {} THEN 0
        ELSE CHOOSE k \in matching : \A j \in matching : j <= k

Occurrences(seq, e) == Cardinality({k \in DOMAIN seq : seq[k] = e})

\* C1: the returned layout_type and slide_layout_index are those of the
\* highest-numbered rule whose trigger holds, or (content, 1) when none
\* holds; so blank is returned whenever rule 8 holds, and comparison only
\* when rule 1 holds and none of rules 2-8 does.
C1_LastMatchingRuleWins ==
    Analyzed =>
        LET highest == HighestMatchingRule
        IN  /\ layout_analysis.layout_type = RuleLayoutType(highest)
            /\ layout_analysis.slide_layout_index = RuleLayoutIndex(highest)
            /\ RuleMatches(8) => layout_analysis.layout_type = "blank"
            /\ layout_analysis.layout_type = "comparison" =>
                   RuleMatches(1) /\ \A k \in 2..8 : ~RuleMatches(k)

\* C1 witness: rules 1, 3 and 8 all hold and blank is what is returned.
C1_Witness ==
    /\ Analyzed
    /\ RuleMatches(1) /\ RuleMatches(3) /\ RuleMatches(8)
    /\ layout_analysis.layout_type = "blank"
    /\ layout_analysis.slide_layout_index = 6

\* C2: visual_elements holds "chart" once exactly when rule 2 matched,
\* "smartart" once exactly when rule 3 matched, "image_placeholder" once
\* exactly when rule 7 matched, and nothing else, whichever rule set
\* layout_type last.
C2_VisualElementsAccumulate ==
    Analyzed =>
        LET elements == layout_analysis.visual_elements
        IN  /\ Occurrences(elements, "chart")
                   = IF RuleMatches(2) THEN 1 ELSE 0
            /\ Occurrences(elements, "smartart")
                   = IF RuleMatches(3) THEN 1 ELSE 0
            /\ Occurrences(elements, "image_placeholder")
                   = IF RuleMatches(7) THEN 1 ELSE 0
            /\ \A k \in DOMAIN elements :
                   elements[k] \in {"chart", "smartart", "image_placeholder"}

\* C2 witness: rules 2 and 7 matched, rule 8 set layout_type last, and both
\* tags are still there.
C2_Witness ==
    /\ Analyzed
    /\ RuleMatches(2) /\ RuleMatches(7) /\ RuleMatches(8)
    /\ layout_analysis.layout_type = "blank"
    /\ layout_analysis.visual_elements = <<"chart", "image_placeholder">>

OverrideTitle == "Overview"

OverrideContent == "diagram of our 3-step process: 1. Plan 2. Build 3. Ship"

OverrideInput ==
    Analyzed /\ slide_title = OverrideTitle /\ content = OverrideContent

\* C4 as stated: that input ends with layout_type = section and "smartart"
\* in visual_elements.
C4_EndsAsSection ==
    OverrideInput =>
        /\ layout_analysis.layout_type = "section"
        /\ Occurrences(layout_analysis.visual_elements, "smartart") = 1

\* C4 as amended: that input ends with layout_type = content_with_caption
\* on slot 7: rule 7 (the content says "diagram") overwrites the section
\* match of rule 4, which overwrote the process match of rule 3, and
\* visual_elements still holds "smartart" (followed by "image_placeholder").
C4_EndsAsContentWithCaption ==
    OverrideInput =>
        /\ RuleMatches(3) /\ RuleMatches(4) /\ RuleMatches(7)
        /\ layout_analysis.layout_type = "content_with_caption"
        /\ layout_analysis.slide_layout_index = 7
        /\ layout_analysis.visual_elements = <<"smartart", "image_placeholder">>

\* C4 witness: that input has been classified.
C4_Witness ==
    OverrideInput /\ layout_analysis.layout_type = "content_with_caption"

----------------------------------------------------------------------------
(* Properties of the structure extractors, read on the content_structure   *)
(* the classifier returned.                                                *)

IsChartStructure(cs) == "chart_type" \in DOMAIN cs

IsComparisonStructure(cs) == "left_side" \in DOMAIN cs

ContentPercentages == PercentValuesFrom(content, 1)

ContentGrowth == GrowthValuesFrom(Lower(content), 1)

BeforeFirstKeyword ==
    LET low == Lower(content)
        kw == SplitKeywords[FirstSplitKeyword(content)]
    IN  SubSeq(low, 1, Find(low, kw) - 1)

AfterFirstKeyword ==
    LET low == Lower(content)
        kw == SplitKeywords[FirstSplitKeyword(content)]
    IN  From(low, Find(low, kw) + Len(kw))

\* C6: when a split keyword occurs in the content, left_side is the bullet
\* extraction of everything before its first occurrence and right_side the
\* bullet extraction of everything after it, later occurrences included.
C6_SplitAtFirstOccurrence ==
    (Analyzed /\ IsComparisonStructure(layout_analysis.content_structure)
        /\ FirstSplitKeyword(content) # 0) =>
        /\ layout_analysis.content_structure.left_side
               = extract_bullet_points(BeforeFirstKeyword)
        /\ layout_analysis.content_structure.right_side
               = extract_bullet_points(AfterFirstKeyword)

CatsAndDogs == "Cats vs Dogs: loyal, clean vs loyal, playful"

\* C7 as stated: for that content both sides come out non-empty.
C7_SidesNonEmpty ==
    (Analyzed /\ content = CatsAndDogs) =>
        /\ IsComparisonStructure(layout_analysis.content_structure)
        /\ Len(layout_analysis.content_structure.left_side) > 0
        /\ Len(layout_analysis.content_structure.right_side) > 0

\* C7 as amended: for that content the comparison structure has an empty
\* left_side and an empty right_side: neither the text before the first
\* "vs" nor the text after it holds a line that starts with a bullet marker
\* or contains a trigger word, so the bullet extractor selects nothing.
C7_SidesEmpty ==
    (Analyzed /\ content = CatsAndDogs) =>
        /\ IsComparisonStructure(layout_analysis.content_structure)
        /\ layout_analysis.content_structure.left_side = <<>>
        /\ layout_analysis.content_structure.right_side = <<>>
        /\ extract_bullet_points(BeforeFirstKeyword) = <<>>
        /\ extract_bullet_points(AfterFirstKeyword) = <<>>

\* C7 witness: that content has been classified as a comparison.
C7_Witness ==
    /\ Analyzed
    /\ content = CatsAndDogs
    /\ layout_analysis.layout_type = "comparison"
    /\ FirstSplitKeyword(content) = 1

----------------------------------------------------------------------------
(* Properties of slide assembly, read once create_slide_with_smart_layout  *)
(* has returned or raised.                                                 *)

\* what the content mapping builds on the layout the slide was added with
ContentMapping ==
    create_standard_content(
        SetTitle(NewSlide(slide.layout_index, layout), slide_title), content)

\* C8: with layout_type comparison or two_column on a slot of fewer than 3
\* placeholders, the slide is the one the content mapping builds (body filled
\* with 2 placeholders, title only with 1).
C8_FallsBackToContentMapping ==
    (pc = "built" /\ layout.index_offered
        /\ layout_analysis.layout_type \in {"comparison", "two_column"}
        /\ slide.n_placeholders < 3) =>
        slide = ContentMapping

\* C9: with layout_type chart, process, content_with_caption or content, the
\* body placeholder is written when the slot has at least 2 placeholders;
\* with fewer the slide is built with its title set, no body and no error.
\* Read on the slots that have a title placeholder.
C9_BodyFilledOrTitleOnly ==
    (pc \in {"built", "failed"} /\ layout.index_offered /\ layout.has_title
        /\ layout_analysis.layout_type
               \in {"chart", "process", "content_with_caption", "content"}) =>
        /\ slide.n_placeholders >= 2 => slide.ph1.call # "none"
        /\ slide.n_placeholders < 2 =>
               /\ error = "none"
               /\ slide.title_set
               /\ slide.ph1 = Untouched

\* C10: create_slide_with_smart_layout returns a slide and never ends in an
\* error, whatever the decision and whatever the renderer offers: a slot
\* without body placeholders, a slot without a title placeholder, a slot
\* index it does not have.
C10_AssemblyIsTotal == error = "none" /\ pc # "failed"

\* C11: with layout_type title_only, blank or section the slide is built
\* without error with its title set and no other placeholder written,
\* whatever the number of placeholders of the slot.  Read on the slots that
\* have a title placeholder.
C11_TitleSlotOnly ==
    (pc \in {"built", "failed"} /\ layout.index_offered /\ layout.has_title
        /\ layout_analysis.layout_type \in {"title_only", "blank", "section"}) =>
        /\ error = "none"
        /\ slide.title_set /\ slide.title = slide_title
        /\ slide.ph1 = Untouched
        /\ slide.ph2 = Untouched

----------------------------------------------------------------------------
(* Properties of the bullet extractor, read on the content of the current  *)
(* entry taken as a sequence of lines.                                     *)

ContentLines == Split(content, "\n")

ContentPoints == extract_bullet_points(content)

\* each line prefixed with "- "
PrefixedLines(lines) == [k \in 1..Len(lines) |-> "- " \o lines[k]]

\* the prefixed lines with marker and surrounding whitespace removed
StrippedLines(lines) ==
    [k \in 1..Len(lines) |-> CleanPoint(Strip("- " \o lines[k]))]

IsNonEmpty(x) == x # ""

HasTriggerWord(x) ==
    LET low == Lower(x)
    IN  \E w \in {"important", "key", "main", "primary"} : Contains(low, w)

IsNonEmptyWithTriggerWord(x) == IsNonEmpty(x) /\ HasTriggerWord(x)

\* the points of the prefixed lines and those of their stripped versions
PointsOfPrefixed(lines) ==
    extract_bullet_points(Join(PrefixedLines(lines), "\n"))

PointsOfStripped(lines) ==
    extract_bullet_points(Join(StrippedLines(lines), "\n"))

SelectedLine(line) ==
    /\ IsNonEmpty(line)
    /\ \/ \E m \in {Bullet, "-", "*", "1.", "2.", "3."} : StartsWith(line, m)
       \/ HasTriggerWord(line)

\* the selected lines that leave some text once the marker is removed
EmittedLines(lines) ==
    {k \in 1..Len(lines) :
        LET line == Strip(lines[k])
        IN  SelectedLine(line) /\ IsNonEmpty(CleanPoint(line))}

\* the position in the output of the point of line k
PointRank(emitted, k) == Cardinality({j \in emitted : j <= k})

StartsWithFourDot(line) == StartsWith(Strip(line), "4.")

\* C13: the points are those of the selected lines, one per line, in line
\* order and with duplicates kept; none is empty and there are at most as
\* many as lines; a line is selected exactly when, trimmed, it is non-empty
\* and starts with one of the six markers or contains a trigger word, so a
\* line that starts with "4." and has no trigger word gives no point.
C13_PointsOfSelectedLines ==
    Analyzed =>
        LET lines == ContentLines
            points == ContentPoints
            emitted == EmittedLines(lines)
        IN  /\ Len(points) = Cardinality(emitted)
            /\ \A k \in emitted :
                   points[PointRank(emitted, k)] = CleanPoint(Strip(lines[k]))
            /\ \A j \in 1..Len(points) : IsNonEmpty(points[j])
            /\ Len(points) <= Len(lines)
            /\ \A k \in 1..Len(lines) :
                   (StartsWithFourDot(lines[k]) /\ ~HasTriggerWord(lines[k])) =>
                       /\ k \notin emitted
                       /\ Len(points) <= Len(lines) - 1

\* C13 witness: a line starting with "4." gave no point and the two equal
\* lines after it gave two equal points.
C13_Witness ==
    /\ Analyzed
    /\ LET lines == ContentLines
       IN  /\ Len(lines) = 3
           /\ StartsWithFourDot(lines[1]) /\ ~HasTriggerWord(lines[1])
           /\ lines[2] = lines[3]
    /\ ContentPoints = <<"a", "a">>

\* the line trimmed, with the marker it starts with, if any, and the
\* whitespace around the rest removed
WithoutMarker(full_line) ==
    LET line == Strip(full_line)
        markers == {m \in {Bullet, "-", "*", "1.", "2.", "3."} :
                       StartsWith(line, m)}
    IN  IF markers = {} THEN line
        ELSE Strip(From(line, Len(CHOOSE m \in markers : TRUE) + 1))

\* the selected lines that leave some text once the marker alone is removed
KeptLines(lines) ==
    {k \in 1..Len(lines) :
        SelectedLine(Strip(lines[k])) /\ IsNonEmpty(WithoutMarker(lines[k]))}

\* C14: each point is its selected line with only the leading marker and
\* the surrounding whitespace removed, so a line selected for a trigger
\* word alone is emitted whole; a line with nothing left is dropped.
C14_OnlyMarkerRemoved ==
    Analyzed =>
        LET lines == ContentLines
            points == ContentPoints
            kept == KeptLines(lines)
        IN  /\ Len(points) = Cardinality(kept)
            /\ \A k \in kept :
                   points[PointRank(kept, k)] = WithoutMarker(lines[k])

----------------------------------------------------------------------------
(* Properties of the decision record as a whole.                           *)

LayoutPairs ==
    {<<"content", 1>>, <<"comparison", 4>>, <<"chart", 1>>, <<"process", 1>>,
     <<"section", 2>>, <<"two_column", 3>>, <<"title_only", 5>>,
     <<"content_with_caption", 7>>, <<"blank", 6>>}

\* the reasoning string written together with each layout_type
ReasoningOf(layout_type) ==
    CASE layout_type = "content" -> ""
      [] layout_type = "comparison" ->
            "Contains comparison keywords - using side-by-side layout"
      [] layout_type = "chart" ->
            "Found " \o ToString(NumbersFound(Lower(content)))
                \o " numerical data points - adding chart visualization"
      [] layout_type = "process" ->
            "Contains process or step-by-step content - using SmartArt process flow"
      [] layout_type = "section" ->
            "Section header detected - using section layout"
      [] layout_type = "two_column" ->
            "Content can be split into two balanced columns"
      [] layout_type = "title_only" ->
            "Short, impactful content - using title-only layout for emphasis"
      [] layout_type = "content_with_caption" ->
            "Content mentions visual elements - using caption layout"
      [] layout_type = "blank" ->
            "Minimal content with diagram title - using blank layout for custom graphics"

\* C15: layout_type and slide_layout_index are one of the nine pairs the
\* rules (or the default) write, and reasoning is the string the rule of
\* that pair writes with it.
C15_SetTogether ==
    Analyzed =>
        /\ <<layout_analysis.layout_type, layout_analysis.slide_layout_index>>
               \in LayoutPairs
        /\ layout_analysis.reasoning = ReasoningOf(layout_analysis.layout_type)

\* C15 witness: rule 1 (index 4) and rule 3 (index 1) matched before rule 4
\* did, and the record holds the pair and the reasoning of rule 4.
C15_Witness ==
    /\ Analyzed
    /\ RuleMatches(1) /\ RuleMatches(3) /\ RuleMatches(4)
    /\ layout_analysis.layout_type = "section"
    /\ layout_analysis.slide_layout_index = 2
    /\ layout_analysis.reasoning
           = "Section header detected - using section layout"

\* the keys content_structure is to have for each layout_type
StructureKeys(layout_type) ==
    CASE layout_type = "comparison" ->
            {"left_side", "right_side", "comparison_type"}
      [] layout_type = "chart" ->
            {"chart_type", "data_points", "categories", "values"}
      [] layout_type = "process" -> {"process_type", "steps", "total_steps"}
      [] layout_type = "two_column" -> {"left_column", "right_column"}
      [] OTHER -> {}

\* C16: content_structure has the shape of layout_type: a comparison, chart,
\* process or two-column structure for those four layout types, and the
\* empty structure for content, section, title_only, content_with_caption
\* and blank.
C16_StructureMatchesLayoutType ==
    Analyzed =>
        DOMAIN layout_analysis.content_structure
            = StructureKeys(layout_analysis.layout_type)

----------------------------------------------------------------------------
(* Properties of the chart and process extractors, read on what they       *)
(* return for the content of the current entry.                            *)

ContentChartData == extract_chart_data(content)

\* the decision still holds the structure rule 2 stored
ChartDataInDecision ==
    /\ IsChartStructure(layout_analysis.content_structure)
    /\ layout_analysis.content_structure = ContentChartData

\* C17: categories and values have the same length; categories are
\* "Category 1".."Category N" or "Growth 1".."Growth N" in order; both are
\* empty when the content has neither a percentage nor a growth match.
C17_CategoriesMatchValues ==
    Analyzed =>
        LET d == ContentChartData
            n == Len(d.values)
            percentages == ContentPercentages
            growth == ContentGrowth
        IN  /\ Len(d.categories) = n
            /\ \/ d.categories = [k \in 1..n |-> "Category " \o ToString(k)]
               \/ d.categories = [k \in 1..n |-> "Growth " \o ToString(k)]
            /\ (percentages = <<>> /\ growth = <<>>) =>
                   d.categories = <<>> /\ d.values = <<>>
            /\ (RuleMatches(2) /\ ~RuleMatches(3) /\ ~RuleMatches(5)) =>
                   layout_analysis.content_structure = d

\* C17 witness: rule 2 stored a chart structure with two values and the two
\* labels "Growth 1", "Growth 2".
C17_Witness ==
    /\ Analyzed
    /\ ChartDataInDecision
    /\ Len(layout_analysis.content_structure.values) = 2
    /\ layout_analysis.content_structure.categories = <<"Growth 1", "Growth 2">>

ContentProcess == extract_process_structure(content)

\* the pattern (\d+)\.\s*(.+) matches somewhere in the content: a digit, a
\* dot and, after whitespace only, a character that is not a newline
NumberedStepFound ==
    \E k \in 1..Len(content) :
        /\ IsDigit(Char(content, k))
        /\ StartsAt(content, k + 1, ".")
        /\ \E r \in (k + 2)..Len(content) :
               /\ Char(content, r) # "\n"
               /\ \A j \in (k + 2)..(r - 1) : IsSpace(Char(content, j))

\* C18: total_steps is the length of steps on both paths: when the numbered
\* pattern matches, steps are the captured texts in order; when it does
\* not, steps are the bullet extractor's points for the content.
C18_StepCountIsLength ==
    Analyzed =>
        LET p == ContentProcess
            numbered == NumberedStepFound
        IN  /\ p.total_steps = Len(p.steps)
            /\ numbered =>
                   /\ p.steps = StepsFrom(content, 1)
                   /\ Len(p.steps) >= 1
            /\ ~numbered => p.steps = ContentPoints
            /\ (RuleMatches(3) /\ ~RuleMatches(5)) =>
                   layout_analysis.content_structure = p

\* C18 witness: rule 3 stored a process structure whose two steps are the
\* bullet extractor's points, no numbered step being there.
C18_Witness ==
    /\ Analyzed
    /\ layout_analysis.layout_type = "process"
    /\ ~NumberedStepFound
    /\ layout_analysis.content_structure.steps = ContentPoints
    /\ layout_analysis.content_structure.total_steps = 2

----------------------------------------------------------------------------
(* Properties of single rules of the classifier.                           *)

\* the decision holds the two columns rule 5 stores (no later rule writes
\* content_structure)
TwoColumnSelected ==
    "left_column" \in DOMAIN layout_analysis.content_structure

LeftHalf ==
    LET lines == ContentLines
    IN  Join(SubSeq(lines, 1, Len(lines) \div 2), "\n")

RightHalf ==
    LET lines == ContentLines
    IN  Join(SubSeq(lines, (Len(lines) \div 2) + 1, Len(lines)), "\n")

RejectedCandidate ==
    /\ Count(content, "\n") >= 4
    /\ Len(ContentLines) >= 6
    /\ ~(Len(LeftHalf) > 20 /\ Len(RightHalf) > 20)

SplitAccepted ==
    /\ Count(content, "\n") >= 4
    /\ Len(ContentLines) >= 6
    /\ Len(LeftHalf) > 20
    /\ Len(RightHalf) > 20

\* the decision of the other seven rules, rule 5 left out
DecisionWithoutRule5 ==
    LET a1 == Rule1(DefaultAnalysis, content, slide_title)
        a2 == Rule2(a1, content, slide_title)
        a3 == Rule3(a2, content, slide_title)
        a4 == Rule4(a3, content, slide_title)
        a6 == Rule6(a4, content, slide_title)
        a7 == Rule7(a6, content, slide_title)
    IN  Rule8(a7, content, slide_title)

\* C19: rule 5 selects two_column exactly when the content has at least 4
\* newlines and 6 lines and both halves of the midpoint split are longer
\* than 20 characters; then left_column, a newline and right_column give the
\* content back; when the split is rejected the decision is the one the
\* other rules make.
C19_TwoColumnSplit ==
    Analyzed =>
        /\ TwoColumnSelected <=> SplitAccepted
        /\ SplitAccepted =>
               /\ layout_analysis.content_structure.left_column = LeftHalf
               /\ layout_analysis.content_structure.right_column = RightHalf
               /\ LeftHalf \o "\n" \o RightHalf = content
               /\ (\A k \in 6..8 : ~RuleMatches(k)) =>
                      /\ layout_analysis.layout_type = "two_column"
                      /\ layout_analysis.slide_layout_index = 3
        /\ ~SplitAccepted => layout_analysis = DecisionWithoutRule5

\* C19 witness: a content of at least 6 lines was split into two halves
\* longer than 20 characters and the decision is two_column.
C19_Witness ==
    /\ Analyzed
    /\ SplitAccepted
    /\ layout_analysis.layout_type = "two_column"
    /\ layout_analysis.content_structure.left_column = LeftHalf
    /\ Len(layout_analysis.content_structure.right_column) > 20

\* a content of at least 6 lines whose split was rejected, classified
RejectedSplitClassified ==
    Analyzed /\ RejectedCandidate /\ ~TwoColumnSelected

\* rule 1 ran its body (enhancements is only ever appended to)
Rule1Fired ==
    Occurrences(layout_analysis.enhancements, "side_by_side_layout") = 1

\* one of the extractor's four keywords is in the lowercased content
SplitKeywordInContent ==
    \E kw \in {"vs", "versus", "compared to", "compared with"} :
        Contains(Lower(content), kw)

EmptyComparison ==
    [left_side |-> <<>>, right_side |-> <<>>, comparison_type |-> "general"]

\* C20: whenever rule 1 fires and calls the comparison extractor, the
\* extractor finds one of its keywords in the content; its outcome without
\* a keyword and without a split is not reached from the classifier.
C20_ExtractorFindsKeyword ==
    (Analyzed /\ Rule1Fired) =>
        /\ SplitKeywordInContent
        /\ FirstSplitKeyword(content) # 0

\* one of the classifier's five keywords is in the lowercased text
ComparisonKeywordIn(text) ==
    \E kw \in {"vs", "versus", "compared to", "compared with",
                "difference between"} : Contains(Lower(text), kw)

\* C20 as amended: rule 1 fires exactly when one of its five keywords is in
\* the content or in the title; the extractor finds a keyword when one of
\* its four is in the content; when rule 1 fired on the title alone or on
\* "difference between", the extractor finds none and returns the structure
\* with both sides empty.
C20_NoKeywordOutcomeReached ==
    Analyzed =>
        /\ Rule1Fired <=>
               (ComparisonKeywordIn(content) \/ ComparisonKeywordIn(slide_title))
        /\ (Rule1Fired /\ SplitKeywordInContent) =>
               FirstSplitKeyword(content) # 0
        /\ (Rule1Fired /\ ~SplitKeywordInContent) =>
               /\ FirstSplitKeyword(content) = 0
               /\ extract_comparison_structure(content) = EmptyComparison
               /\ \/ ComparisonKeywordIn(slide_title)
                  \/ Contains(Lower(content), "difference between")

\* C20 witness: rule 1 fired on the title alone, the extractor found no
\* keyword, and the decision is comparison with both sides empty.
C20_Witness ==
    /\ Analyzed /\ Rule1Fired
    /\ Contains(Lower(slide_title), "vs")
    /\ ~SplitKeywordInContent
    /\ layout_analysis.layout_type = "comparison"
    /\ layout_analysis.content_structure = EmptyComparison

\* rule 1 fired on "difference between", which the extractor does not know
KeywordUnknownToExtractor ==
    /\ Analyzed /\ Rule1Fired
    /\ Contains(Lower(content), "difference between")
    /\ ~Contains(Lower(slide_title), "vs")
    /\ ~SplitKeywordInContent
    /\ layout_analysis.content_structure = EmptyComparison

----------------------------------------------------------------------------
(* Further properties of slide assembly.                                   *)

\* a placeholder that was cleared and given no point: text_frame.clear()
\* leaves it with one empty paragraph
ClearedPlaceholder ==
    [call |-> "add_bullet_points_to_placeholder", paragraphs |-> <<"">>]

\* the decision is comparison with no point on either side, and the slide
\* was added on the chosen slot, which has a title and two body placeholders
EmptyComparisonOnWideSlot ==
    /\ pc \in {"built", "failed"}
    /\ layout.index_offered /\ layout.has_title
    /\ slide.n_placeholders >= 3
    /\ layout_analysis.layout_type = "comparison"
    /\ layout_analysis.content_structure.left_side = <<>>
    /\ layout_analysis.content_structure.right_side = <<>>

\* C21: a comparison decision with empty left_side and right_side, on a slot
\* with at least 3 placeholders (the title and two bodies), still gives the
\* comparison shape: the left and the right placeholder are both cleared
\* and given an empty payload; neither is skipped and the slide is not the
\* one of the content mapping.
C21_EmptyComparisonKeepsShape ==
    EmptyComparisonOnWideSlot =>
        /\ error = "none"
        /\ slide.title_set
        /\ slide.ph1 = ClearedPlaceholder
        /\ slide.ph2 = ClearedPlaceholder
        /\ slide # ContentMapping

\* C21 witness: the title alone made the slide a comparison, the content
\* gave no side, and the slide was built on a slot of 3 placeholders.
C21_Witness ==
    /\ EmptyComparisonOnWideSlot
    /\ pc = "built"
    /\ slide.n_placeholders = 3
    /\ slide.ph2.call = "add_bullet_points_to_placeholder"

----------------------------------------------------------------------------
(* Properties of the caller's side, read under CallerSpec.                 *)

Returned(c) == calls[c].pos = LastRule + 1

InFlight(c) == calls[c].pos \in 2..LastRule

\* a step leaves the arguments of every call that has started as they were
ArgumentsKept ==
    \A c \in Calls :
        calls[c].pos > 0 =>
            /\ calls'[c].title = calls[c].title
            /\ calls'[c].content = calls[c].content

\* a step of one call leaves the dict of every other call as it was
OtherDictsKept ==
    \A c \in Calls :
        calls'[c].pos = calls[c].pos => calls'[c].analysis = calls[c].analysis

\* C22: classification is stateless across slides.  However the rule steps
\* of the calls interleave, the decision a call returns (layout_type, slot
\* index, visual_elements, content_structure and the rest of the dict) is
\* the decision obtained by classifying its title and content alone; a step
\* of one call changes no other call's dict, and no step changes the title
\* or the content a call was given.
C22_EachCallAlone ==
    /\ [](\A c \in Calls :
            Returned(c) =>
                calls[c].analysis =
                    analyze_content_for_optimal_layout(calls[c].content,
                                                       calls[c].title))
    /\ [][ArgumentsKept /\ OtherDictsKept]_vars

\* one call has returned a decision with visual elements while the other,
\* given another input, is between two rules with visual elements of its own
C22_Witness ==
    /\ Returned(1)
    /\ InFlight(2)
    /\ calls[1].content # calls[2].content
    /\ Len(calls[1].analysis.visual_elements) > 0
    /\ Len(calls[2].analysis.visual_elements) > 0
    /\ calls[1].analysis.visual_elements # calls[2].analysis.visual_elements

HasNewline(s) == Contains(s, "\n")

\* C23: saving a sequence of layout decisions and loading the saved file
\* back yields a sequence equal to the one saved: the same length, the
\* decisions in the same order, and each decision equal field for field
\* (layout_type, slide_layout_index, visual_elements, reasoning,
\* enhancements, content_structure).
C23_LoadedEqualsSaved ==
    caller_pc = "loaded" =>
        /\ Len(loaded_plan) = Len(plan)
        /\ \A k \in 1..Len(plan) :
            /\ DOMAIN loaded_plan[k] = DOMAIN plan[k]
            /\ \A field \in DOMAIN plan[k] :
                loaded_plan[k][field] = plan[k][field]
        /\ loaded_plan = plan

\* a plan of two different decisions was saved and loaded: a two-column
\* decision whose columns hold newlines, then a chart decision with values
C23_Witness ==
    /\ caller_pc = "loaded"
    /\ Len(plan) = 2
    /\ plan[1].layout_type = "two_column"
    /\ HasNewline(plan[1].content_structure.left_column)
    /\ plan[2].layout_type = "chart"
    /\ Len(plan[2].content_structure.values) > 0
    /\ plan_file.json = "array"

----------------------------------------------------------------------------
(* Further properties of rule 2.                                           *)

\* the places where a run of digits starts
DigitRuns(s) == {k \in 1..Len(s) : RunStart(s, k)}

\* the only numeric datum of s is one token "N%"
OnlyOnePercentToken(s) ==
    LET runs == DigitRuns(s)
    IN  /\ Cardinality(runs) = 1
        /\ \A k \in runs : StartsAt(s, SkipDigits(s, k), "%")

\* C24: rule 2 sums the matches of its six patterns without removing the
\* tokens two patterns match.  For content whose only numeric datum is one
\* token "N%", r'\d+%' finds one match and r'\d+\s*(percent|%)' finds one
\* more, the other four find none, so len(numbers_found) is 2 and rule 2
\* fires: "chart" is appended to visual_elements and "data_visualization"
\* to enhancements, and the decision is chart on index 1 with the reasoning
\* "Found 2 ..." unless a later rule overwrites it.
C24_OnePercentTokenCountsTwice ==
    Analyzed =>
        LET content_lower == Lower(content)
        IN  OnlyOnePercentToken(content_lower) =>
                /\ CountPercentSign(content_lower) = 1
                /\ CountNumberThenWord(content_lower, {"percent", "%"}) = 1
                /\ NumbersFound(content_lower) = 2
                /\ Rule2Matches(content, slide_title)
                /\ Occurrences(layout_analysis.visual_elements, "chart") = 1
                /\ Occurrences(layout_analysis.enhancements,
                               "data_visualization") = 1
                /\ HighestMatchingRule <= 2 =>
                       /\ layout_analysis.layout_type = "chart"
                       /\ layout_analysis.slide_layout_index = 1
                       /\ StartsWith(layout_analysis.reasoning, "Found 2 ")

\* content with the single token "25%" came out as chart
C24_Witness ==
    /\ Analyzed
    /\ OnlyOnePercentToken(Lower(content))
    /\ layout_analysis.layout_type = "chart"
    /\ layout_analysis.visual_elements = <<"chart">>
    /\ layout_analysis.content_structure.values = <<25>>

----------------------------------------------------------------------------
(* Properties of the deck.                                                 *)

\* the slide the except branch builds
FallbackSlide ==
    create_standard_content(SetTitle(NewSlide(1, layout), slide_title), content)

\* C25: create_enhanced_powerpoint builds a deck of exactly
\* 1 + len(slides_data) slides, the title slide and then one slide per
\* entry in order: once k entries have been processed the deck holds 1 + k
\* slides and the run has not ended in an error, and the slide of the entry
\* is completely built (its title is set).  When the renderer does not offer
\* the decision's index the slide is built once, on index 1, with the
\* standard content mapping.
C25_OneSlidePerEntry ==
    /\ pc \in {"loop", "built", "failed", "saved"} => n_deck = 1 + i
    /\ pc \in {"built", "failed"} =>
          /\ error = "none"
          /\ slide.title_set
          /\ slide.title = slide_title
          /\ ~layout.index_offered =>
                 /\ slide.layout_index = 1
                 /\ slide = FallbackSlide

\* C26: when the final layout_type is chart and the chart extractor returned
\* non-empty values, slide assembly adds a chart to the slide with the
\* extracted categories and one series of the extracted values.  Read on a
\* slot that is offered and has a title, with a renderer whose add_chart
\* call succeeds.
C26_ChartPayloadPassed ==
    (/\ pc \in {"built", "failed"}
     /\ layout.index_offered /\ layout.has_title /\ layout.graphics_ok
     /\ layout_analysis.layout_type = "chart"
     /\ "values" \in DOMAIN layout_analysis.content_structure
     /\ Len(layout_analysis.content_structure.values) > 0) =>
        /\ slide.chart.added
        /\ slide.chart.categories = layout_analysis.content_structure.categories
        /\ slide.chart.values = layout_analysis.content_structure.values

=============================================================================
